---- MODULE Spec2Model ----
(***************************************************************************)
(* Model of the detection pipeline of src/test.py: load two recordings,    *)
(* resample the test recording to the reference's rate, match them by      *)
(* normalised cross-correlation, beamform on a match and derive a          *)
(* direction label, then print the detection count and the detection log.  *)
(*                                                                         *)
(* A TimeSamples object is a record                                        *)
(*   [id |-> object identity, data |-> sequence of frames,                 *)
(*    nch |-> channels per frame, sample_freq |-> rate]                    *)
(* where a frame is a sequence of nch integer samples.  nch is kept apart  *)
(* from data because a (0, nch) array has no frame to read it from.        *)
(*                                                                         *)
(* Floating point results of the matcher are modelled exactly: a value is  *)
(* a rational n/d (d > 0), NaN, +inf or -inf, with the IEEE rules for      *)
(* x/0, 0/0 and comparisons with NaN.                                      *)
(***************************************************************************)
EXTENDS Integers, Sequences, FiniteSets, TLC

VARIABLES pc, reference_ts, test_ts, mics, cars_detected, detection_times,
          stdout, raised, clock, matchOut, beamCalls, direction, unit

vars == <<pc, reference_ts, test_ts, mics, cars_detected, detection_times,
          stdout, raised, clock, matchOut, beamCalls, direction, unit>>

----------------------------------------------------------------------------
(* Bounds of the model *)

\* a signal has at most MaxCells samples in all (frames * channels)
MaxCells == 2
\* the geometry file lists 1..MaxMics microphones
MaxMics == 2
\* main's grid has 2*GridHalf+1 nodes per axis (41 = 2*20+1 in the source)
GridHalf == 1
\* shapes of the power maps the direction rule is applied to on its own
MaxRows == 2
MaxCols == 4

\* sample amplitudes of the signals given to the matcher on its own
Samples == {-2, -1, 0, 1, 2}
\* sample amplitudes of the recordings read by main and given to the resampler
FileSamples == {0, 1}
\* sampling rates the resampler is given on its own
Rates == {2, 3, 5}
\* sampling rates of the recordings read by main
FileRates == {2, 3}
\* dB levels of a power map cell
Levels == {0, 1}

----------------------------------------------------------------------------
(* Signals *)

\* (frames, channels) of the signals: at least one channel, MaxCells samples at most
Shapes == {sh \in (0..MaxCells) \X (1..MaxCells) : sh[1] * sh[2] <= MaxCells}

\* all arrays of f frames by c channels with samples in S
Arrays(f, c, S) == [1..f -> [1..c -> S]]

\* TimeSamples objects with identity id, samples in S and a rate in rates
SignalsOf(S, id, rates) ==
  UNION { { [id |-> id, data |-> d, nch |-> sh[2], sample_freq |-> r] :
              d \in Arrays(sh[1], sh[2], S), r \in rates } : sh \in Shapes }

NoSignal == [id |-> 0, data |-> <<>>, nch |-> 1, sample_freq |-> 1]

Min(a, b) == IF a <= b THEN a ELSE b

RECURSIVE SumSeq(_)
SumSeq(s) == IF s = <<>> THEN 0 ELSE Head(s) + SumSeq(Tail(s))

----------------------------------------------------------------------------
(* Floating point values: exact rationals with NaN and the infinities *)

Num(n, d) == [k |-> "num", n |-> n, d |-> d]
NaN    == [k |-> "nan",  n |-> 0, d |-> 1]
PosInf == [k |-> "inf",  n |-> 0, d |-> 1]
NegInf == [k |-> "ninf", n |-> 0, d |-> 1]

\* v / m for two finite values v and m (numpy true division: x/0 is an
\* infinity, 0/0 is NaN, a warning and no exception)
FDiv(v, m) ==
  IF m > 0 THEN Num(v, m)
  ELSE IF m < 0 THEN Num(-v, -m)
  ELSE IF v = 0 THEN NaN
  ELSE IF v > 0 THEN PosInf ELSE NegInf

\* a > b for floats a, b (every comparison with NaN is false)
FGt(a, b) ==
  CASE a.k = "nan" \/ b.k = "nan" -> FALSE
    [] a.k = "inf"  -> b.k # "inf"
    [] a.k = "ninf" -> FALSE
    [] OTHER -> CASE b.k = "inf"  -> FALSE
                  [] b.k = "ninf" -> TRUE
                  [] OTHER -> a.n * b.d > b.n * a.d

FEq(a, b) ==
  /\ a.k = b.k
  /\ a.k # "nan"
  /\ a.k = "num" => a.n * b.d = b.n * a.d

\* numpy.max of a non-empty sequence of floats: a NaN anywhere gives NaN
FMax(s) ==
  IF \E i \in DOMAIN s : s[i].k = "nan" THEN NaN
  ELSE CHOOSE x \in {s[i] : i \in DOMAIN s} :
         \A i \in DOMAIN s : ~FGt(s[i], x)

\* numpy.max of a non-empty sequence of integers
IMax(s) == CHOOSE x \in {s[i] : i \in DOMAIN s} : \A i \in DOMAIN s : s[i] <= x

----------------------------------------------------------------------------
(* match_car_sound, src/test.py lines 51-73 *)

\* threshold=0.7, the default of match_car_sound
DefaultThreshold == Num(7, 10)

One == Num(1, 1)

\* what scipy.signal.correlate does with two (0, c) arrays is not fixed by the
\* source: it hands back an all-zero row or it raises
LibOutcomes == {"zeros", "raises"}

\* corr_at summing over the first channel only
corr_at_first_channel(big, small, L, cs, k) ==
  SumSeq([f \in 1..L |-> big[f][1 + k] * small[f][1]])

\* one output cell of the 2-D correlation: arrays big (L, cb) and small (L, cs)
\* overlapped with small shifted k channels to the right
corr_at(big, small, L, cs, k) ==
  SumSeq([i \in 1..(L * cs) |->
            LET f == ((i - 1) \div cs) + 1
                c == ((i - 1) % cs) + 1
            IN  big[f][c + k] * small[f][c]])

\* scipy.signal.correlate(in1, in2, mode='valid') for in1 of shape (L, c1)
\* and in2 of shape (L, c2), L >= 1: one row of |c1 - c2| + 1 values.  When
\* in2 is the wider array scipy swaps the operands and reverses the result.
correlate_valid(in1, c1, in2, c2, L) ==
  IF c1 >= c2
  THEN [k \in 1..(c1 - c2 + 1) |-> corr_at(in1, in2, L, c2, k - 1)]
  ELSE LET K == c2 - c1 + 1
           z == [k \in 1..K |-> corr_at(in2, in1, L, c1, k - 1)]
       IN  [k \in 1..K |-> z[K + 1 - k]]

\* normalize dividing by the magnitude of the maximum
normalize_abs(correlation) ==
  LET m == IMax(correlation)
  IN  [k \in DOMAIN correlation |-> FDiv(correlation[k], IF m < 0 THEN -m ELSE m)]

\* correlation /= np.max(correlation), line 71
normalize(correlation) ==
  LET m == IMax(correlation)
  IN  [k \in DOMAIN correlation |-> FDiv(correlation[k], m)]

MatchOut(raisedBy, ran, corr, norm, ret) ==
  [raised |-> raisedBy, ran |-> ran, correlation |-> corr,
   normalized |-> norm, ret |-> ret]

NoMatchOut == MatchOut("none", {}, <<>>, <<>>, FALSE)

match_car_sound(ref, test, threshold, lib) ==
  LET min_length == Min(Len(ref.data), Len(test.data))
      ref_data   == SubSeq(ref.data, 1, min_length)
      test_data  == SubSeq(test.data, 1, min_length)
      correlation == correlate_valid(test_data, test.nch,
                                     ref_data, ref.nch, min_length)
      norm       == normalize(correlation)
  IN  IF min_length = 0 /\ lib = "raises"
      THEN MatchOut("ValueError", {"correlate"}, <<>>, <<>>, FALSE)
      ELSE MatchOut("none", {"correlate", "normalize"}, correlation, norm,
                    FGt(FMax(norm), threshold))

----------------------------------------------------------------------------
(* load_audio_from_wav, src/test.py lines 8-25 *)

\* the recordings a path can hold: the frames stored in the file
WavFiles(S, rates) == SignalsOf(S, 0, rates)

\* soundfile.read(wav_file), line 18: a 1-D array for a mono file, a 2-D
\* array (frames, channels) otherwise, and the rate
sf_read(wav_file) ==
  [ndim |-> IF wav_file.nch = 1 THEN 1 ELSE 2,
   data |-> IF wav_file.nch = 1
            THEN [i \in 1..Len(wav_file.data) |-> wav_file.data[i][1]]
            ELSE wav_file.data,
   channels |-> wav_file.nch,
   samplerate |-> wav_file.sample_freq]

load_audio_from_wav(wav_file, id) ==
  LET read == sf_read(wav_file)
      data == IF read.ndim = 1
              THEN [i \in 1..Len(read.data) |-> <<read.data[i]>>]
              ELSE read.data
  IN  [id |-> id, data |-> data, nch |-> read.channels,
       sample_freq |-> read.samplerate]

----------------------------------------------------------------------------
(* resample_acoular_ts, src/test.py lines 27-49 *)

\* Python's round(n / d) for n >= 0, d > 0: to the nearest integer, a tie
\* to the even one
PyRound(n, d) ==
  LET q == n \div d
      r == n % d
  IN  IF 2 * r < d THEN q
      ELSE IF 2 * r > d THEN q + 1
      ELSE IF q % 2 = 0 THEN q ELSE q + 1

\* int(...) in place of round(...): the count rounded toward zero
num_samples_truncated(ts, target_fs) ==
  (Len(ts.data) * target_fs) \div ts.sample_freq

\* round(len(data) * float(target_fs) / fs), line 44
num_samples(ts, target_fs) ==
  PyRound(Len(ts.data) * target_fs, ts.sample_freq)

\* scipy.signal.resample(data, num): num frames with the channels of data.
\* The interpolated values are not computed here: any array of that shape.
\* With num = 0 the inverse FFT has no points to produce and raises.
scipy_resample(ts, num) ==
  IF num = 0 THEN {<<>>} ELSE Arrays(num, ts.nch, FileSamples)

ResampleOut(raisedBy, ret) == [raised |-> raisedBy, ret |-> ret]

\* resample_acoular_ts that resamples whatever the rates are
resample_always(ts, target_fs, data_resampled, newid) ==
  IF num_samples(ts, target_fs) = 0
  THEN ResampleOut("ValueError", NoSignal)
  ELSE ResampleOut("none", [id |-> newid, data |-> data_resampled,
                            nch |-> ts.nch, sample_freq |-> target_fs])

\* data_resampled is the array scipy.signal.resample hands back, newid the
\* identity of the TimeSamples object built at line 46
resample_acoular_ts(ts, target_fs, data_resampled, newid) ==
  IF ts.sample_freq # target_fs
  THEN IF num_samples(ts, target_fs) = 0
       THEN ResampleOut("ValueError", NoSignal)
       ELSE ResampleOut("none", [id |-> newid, data |-> data_resampled,
                                 nch |-> ts.nch, sample_freq |-> target_fs])
  ELSE ResampleOut("none", ts)

\* the arrays line 45 can produce for this call
ResampledArrays(ts, target_fs) ==
  IF ts.sample_freq # target_fs
  THEN scipy_resample(ts, num_samples(ts, target_fs))
  ELSE {<<>>}

----------------------------------------------------------------------------
(* beamform_and_detect_direction, src/test.py lines 75-96 *)

\* a power map is a sequence of rows, each a sequence of levels
Maps(rows, cols) == [1..rows -> [1..cols -> Levels]]

NumRows(Lm) == Len(Lm)
NumCols(Lm) == Len(Lm[1])

\* cell i (0-based, row-major) of the flattened map
Flat(Lm, i) == Lm[(i \div NumCols(Lm)) + 1][(i % NumCols(Lm)) + 1]

\* the scan of np.argmax from cell i on, best being the first cell so far
\* that holds the largest level seen
RECURSIVE argmax_scan(_, _, _)
argmax_scan(Lm, i, best) ==
  IF i >= NumRows(Lm) * NumCols(Lm) THEN best
  ELSE argmax_scan(Lm, i + 1, IF Flat(Lm, i) > Flat(Lm, best) THEN i ELSE best)

\* np.argmax(Lm, axis=None): the first index of the maximum of the
\* flattened map
argmax(Lm) == argmax_scan(Lm, 1, 0)

\* np.unravel_index(i, Lm.shape)
unravel_index(i, Lm) == <<i \div NumCols(Lm), i % NumCols(Lm)>>

\* lines 94-96
direction_of(Lm) ==
  LET max_indices == unravel_index(argmax(Lm), Lm)
      x_direction == max_indices[2] - (NumCols(Lm) \div 2)
  IN  IF x_direction > 0 THEN "left-to-right" ELSE "right-to-left"

\* RectGrid(x_min=-1.0, x_max=1.0, y_min=-1.0, y_max=1.0, increment=0.05),
\* line 117: a square grid with an odd number of nodes per axis
GridSize == 2 * GridHalf + 1

\* the power maps the beamformer is taken to produce on main's grid: a
\* single peak at any node of the first or the last row, or a flat map
PeakMaps ==
  { [r \in 1..GridSize |-> [c \in 1..GridSize |->
        IF r = p[1] /\ c = p[2] THEN 1 ELSE 0]] :
      p \in {0, 1, GridSize} \X (1..GridSize) }

NoGeometry == [readable |-> FALSE, num_mics |-> 0]

Geometries ==
  {NoGeometry} \cup {[readable |-> TRUE, num_mics |-> m] : m \in 1..MaxMics}

BeamOut(raisedBy, label) == [raised |-> raisedBy, label |-> label]

\* What lines 88-93 (acoular) can hand to line 94.  The source never
\* compares the channels of test with the microphones of the geometry:
\* with a mismatch acoular either rejects its inputs or computes a map
\* from them.  An unreadable geometry file always fails at line 89.
AcoularOutcomes(test, geometry) ==
  IF ~geometry.readable THEN {[raised |-> "acoular", Lm |-> <<>>]}
  ELSE {[raised |-> "none", Lm |-> m] : m \in PeakMaps}
       \cup (IF test.nch # geometry.num_mics
             THEN {[raised |-> "acoular", Lm |-> <<>>]} ELSE {})

beamform_and_detect_direction(acoular) ==
  IF acoular.raised # "none"
  THEN BeamOut(acoular.raised, "none")
  ELSE BeamOut("none", direction_of(acoular.Lm))

----------------------------------------------------------------------------
(* main, src/test.py lines 98-124 *)

NoUnit == [op |-> "main"]

\* time.time(): the clock advances with every step of the run
time_time == clock

Abort(by) ==
  /\ pc' = "aborted"
  /\ raised' = by

\* lines 107-108, before the recordings are read; the geometry file is
\* whatever the path given to main holds
Init ==
  /\ pc = "start"
  /\ reference_ts = NoSignal
  /\ test_ts = NoSignal
  /\ mics \in Geometries
  /\ cars_detected = 0
  /\ detection_times = <<>>
  /\ stdout = <<>>
  /\ raised = "none"
  /\ clock = 0
  /\ matchOut = NoMatchOut
  /\ beamCalls = 0
  /\ direction = "none"
  /\ unit = NoUnit

\* lines 110-111
Load ==
  /\ pc = "start"
  /\ \E rf \in WavFiles(FileSamples, FileRates),
        tf \in WavFiles(FileSamples, FileRates) :
       /\ reference_ts' = load_audio_from_wav(rf, 1)
       /\ test_ts' = load_audio_from_wav(tf, 2)
  /\ pc' = "resample"
  /\ clock' = clock + 1
  /\ UNCHANGED <<mics, cars_detected, detection_times, stdout, raised,
                 matchOut, beamCalls, direction, unit>>

\* soundfile.read raises on a file it cannot read
LoadFails ==
  /\ pc = "start"
  /\ Abort("soundfile")
  /\ clock' = clock + 1
  /\ UNCHANGED <<reference_ts, test_ts, mics, cars_detected, detection_times,
                 stdout, matchOut, beamCalls, direction, unit>>

\* line 114
Resample ==
  /\ pc = "resample"
  /\ \E d \in ResampledArrays(test_ts, reference_ts.sample_freq) :
       LET out == resample_acoular_ts(test_ts, reference_ts.sample_freq, d, 3)
       IN  IF out.raised # "none"
           THEN Abort(out.raised) /\ UNCHANGED test_ts
           ELSE /\ test_ts' = out.ret
                /\ pc' = "match"
                /\ UNCHANGED raised
  /\ clock' = clock + 1
  /\ UNCHANGED <<reference_ts, mics, cars_detected, detection_times, stdout,
                 matchOut, beamCalls, direction, unit>>

\* line 116
Match ==
  /\ pc = "match"
  /\ \E lib \in LibOutcomes :
       LET out == match_car_sound(reference_ts, test_ts, DefaultThreshold, lib)
       IN  /\ matchOut' = out
           /\ IF out.raised # "none"
              THEN Abort(out.raised)
              ELSE /\ pc' = IF out.ret THEN "beamform" ELSE "report"
                   /\ UNCHANGED raised
  /\ clock' = clock + 1
  /\ UNCHANGED <<reference_ts, test_ts, mics, cars_detected, detection_times,
                 stdout, beamCalls, direction, unit>>

\* lines 117-118
Beamform ==
  /\ pc = "beamform"
  /\ beamCalls' = beamCalls + 1
  /\ \E acoular \in AcoularOutcomes(test_ts, mics) :
       LET out == beamform_and_detect_direction(acoular)
       IN  IF out.raised # "none"
           THEN Abort(out.raised) /\ UNCHANGED direction
           ELSE /\ direction' = out.label
                /\ pc' = "record"
                /\ UNCHANGED raised
  /\ clock' = clock + 1
  /\ UNCHANGED <<reference_ts, test_ts, mics, cars_detected, detection_times,
                 stdout, matchOut, unit>>

\* what line 121 appends: the float time.time() returns, kept as a record
\* of one field so that what an entry holds can be asked of it
DetectionEntry == [timestamp |-> time_time]

\* Record without line 120: the counter is left behind the log
Record_no_increment ==
  /\ pc = "record"
  /\ stdout' = Append(stdout, [line |-> "detected", text |-> direction])
  /\ detection_times' = Append(detection_times, DetectionEntry)
  /\ pc' = "report"
  /\ clock' = clock + 1
  /\ UNCHANGED <<reference_ts, test_ts, mics, cars_detected, raised, matchOut,
                 beamCalls, direction, unit>>

\* lines 119-121
Record ==
  /\ pc = "record"
  /\ stdout' = Append(stdout, [line |-> "detected", text |-> direction])
  /\ cars_detected' = cars_detected + 1
  /\ detection_times' = Append(detection_times, DetectionEntry)
  /\ pc' = "report"
  /\ clock' = clock + 1
  /\ UNCHANGED <<reference_ts, test_ts, mics, raised, matchOut, beamCalls,
                 direction, unit>>

\* Report that prints only when something was detected
Report_only_detections ==
  /\ pc = "report"
  /\ stdout' = IF cars_detected = 0 THEN stdout
               ELSE stdout \o << [line |-> "total", text |-> cars_detected],
                                 [line |-> "times", text |-> detection_times] >>
  /\ pc' = "done"
  /\ clock' = clock + 1
  /\ UNCHANGED <<reference_ts, test_ts, mics, cars_detected, detection_times,
                 raised, matchOut, beamCalls, direction, unit>>

\* lines 123-124
Report ==
  /\ pc = "report"
  /\ stdout' = stdout \o << [line |-> "total", text |-> cars_detected],
                            [line |-> "times", text |-> detection_times] >>
  /\ pc' = "done"
  /\ clock' = clock + 1
  /\ UNCHANGED <<reference_ts, test_ts, mics, cars_detected, detection_times,
                 raised, matchOut, beamCalls, direction, unit>>

Next == Load \/ LoadFails \/ Resample \/ Match \/ Beamform \/ Record \/ Report

Spec == Init /\ [][Next]_vars

----------------------------------------------------------------------------
(* match_car_sound called on its own *)

\* the thresholds the matcher is called with
Thresholds == {Num(0, 1), DefaultThreshold, Num(99, 100), One}

AnyRate == CHOOSE r \in Rates : TRUE

PipelineIdle ==
  /\ mics = NoGeometry
  /\ cars_detected = 0
  /\ detection_times = <<>>
  /\ stdout = <<>>
  /\ raised = "none"
  /\ clock = 0
  /\ matchOut = NoMatchOut
  /\ beamCalls = 0
  /\ direction = "none"

\* the test signal is any signal, or the reference object itself
InitMatch ==
  /\ pc = "call"
  /\ reference_ts \in SignalsOf(Samples, 1, {AnyRate})
  /\ test_ts \in SignalsOf(Samples, 2, {AnyRate}) \cup {reference_ts}
  /\ unit \in {[op |-> "match_car_sound", threshold |-> t] : t \in Thresholds}
  /\ PipelineIdle

MatchCall ==
  /\ pc = "call"
  /\ unit.op = "match_car_sound"
  /\ \E lib \in LibOutcomes :
       matchOut' = match_car_sound(reference_ts, test_ts, unit.threshold, lib)
  /\ raised' = matchOut'.raised
  /\ pc' = "returned"
  /\ UNCHANGED <<reference_ts, test_ts, mics, cars_detected, detection_times,
                 stdout, clock, beamCalls, direction, unit>>

NextMatch == MatchCall

SpecMatch == InitMatch /\ [][NextMatch]_vars

----------------------------------------------------------------------------
(* resample_acoular_ts called on its own *)

InitResample ==
  /\ pc = "call"
  /\ reference_ts = NoSignal
  /\ test_ts \in SignalsOf(FileSamples, 1, Rates)
  /\ \E t \in Rates :
       unit = [op |-> "resample_acoular_ts", ts |-> test_ts, target_fs |-> t,
               ret |-> NoSignal]
  /\ PipelineIdle

\* unit.ts keeps the argument as it was at the call, test_ts is the object
\* the caller still holds after it
ResampleCall ==
  /\ pc = "call"
  /\ unit.op = "resample_acoular_ts"
  /\ \E d \in ResampledArrays(test_ts, unit.target_fs) :
       LET out == resample_acoular_ts(test_ts, unit.target_fs, d, 2)
       IN  /\ unit' = [unit EXCEPT !.ret = out.ret]
           /\ raised' = out.raised
  /\ pc' = "returned"
  /\ UNCHANGED <<reference_ts, test_ts, mics, cars_detected, detection_times,
                 stdout, clock, matchOut, beamCalls, direction>>

NextResample == ResampleCall

SpecResample == InitResample /\ [][NextResample]_vars

----------------------------------------------------------------------------
(* the direction rule of lines 94-96 applied to a power map on its own *)

InitDirection ==
  /\ pc = "call"
  /\ reference_ts = NoSignal
  /\ test_ts = NoSignal
  /\ \E r \in 1..MaxRows, c \in 1..MaxCols :
       \E m \in Maps(r, c) : unit = [op |-> "direction_of", Lm |-> m]
  /\ PipelineIdle

DirectionCall ==
  /\ pc = "call"
  /\ unit.op = "direction_of"
  /\ direction' = direction_of(unit.Lm)
  /\ pc' = "returned"
  /\ UNCHANGED <<reference_ts, test_ts, mics, cars_detected, detection_times,
                 stdout, raised, clock, matchOut, beamCalls, unit>>

NextDirection == DirectionCall

SpecDirection == InitDirection /\ [][NextDirection]_vars

----------------------------------------------------------------------------
(* Claims about main *)

Labels == {"left-to-right", "right-to-left"}

\* the matcher was called by main and returned a value
MatcherReturned == matchOut.raised = "none" /\ "normalize" \in matchOut.ran

\* the run ended with the two lines of lines 123-124
Reported ==
  /\ Len(stdout) >= 2
  /\ stdout[Len(stdout) - 1] = [line |-> "total", text |-> cars_detected]
  /\ stdout[Len(stdout)] = [line |-> "times", text |-> detection_times]

Ended == pc \in {"done", "aborted"}

\* C1 as stated: in every run the beamformer is invoked and a detection is
\* recorded exactly when the matcher returned true, and every run that got
\* past loading and matching ends with the report of the count and the log.
C1_EveryRunReports ==
  (Ended /\ MatcherReturned) =>
     /\ (beamCalls = 1 /\ cars_detected = 1) <=> matchOut.ret
     /\ Reported

\* C1 amended: the beamformer is invoked exactly when the matcher returned
\* true, a detection is recorded exactly when in addition the beamformer
\* returned a label, every run past matching whose beamformer call does not
\* raise goes on to end with the report (count 0 and an empty log when the
\* matcher returned false), and a run that stops after matching without the
\* report is one whose beamformer call raised, with nothing recorded.
C1_ReportsUnlessBeamformerRaises ==
  /\ ~MatcherReturned => (beamCalls = 0 /\ cars_detected = 0)
  /\ (MatcherReturned /\ pc # "beamform") =>
        /\ beamCalls = (IF matchOut.ret THEN 1 ELSE 0)
        /\ cars_detected =
             (IF matchOut.ret /\ direction \in Labels /\ pc \in {"report", "done"}
              THEN 1 ELSE 0)
  /\ pc \in {"record", "report"} => ENABLED Next
  /\ pc = "done" =>
        /\ Reported
        /\ ~matchOut.ret => (cars_detected = 0 /\ detection_times = <<>>)
  /\ (pc = "aborted" /\ MatcherReturned) =>
        /\ matchOut.ret /\ beamCalls = 1 /\ raised = "acoular"
        /\ direction = "none" /\ cars_detected = 0 /\ stdout = <<>>

\* a run that matched nothing and still printed the report
C1_Witness ==
  /\ pc = "done" /\ MatcherReturned /\ ~matchOut.ret
  /\ Reported /\ cars_detected = 0 /\ beamCalls = 0

C8_MismatchRaisesGeometryMismatch ==
  (beamCalls = 1 /\ mics.readable /\ test_ts.nch # mics.num_mics) =>
     /\ raised = "GeometryMismatchError"
     /\ direction = "none"
     /\ cars_detected = 0

----------------------------------------------------------------------------
(* Claims about match_car_sound *)

MatchReturned == pc = "returned" /\ unit.op = "match_car_sound"

MinLen == Min(Len(reference_ts.data), Len(test_ts.data))

\* the zero-lag inner product of the first MinLen frames of test and reference
InnerProduct ==
  SumSeq([i \in 1..MinLen |->
            SumSeq([j \in 1..reference_ts.nch |->
                      test_ts.data[i][j] * reference_ts.data[i][j]])])

\* C3 as stated: a signal with at least one frame matches itself under every
\* threshold below 1.0, all-zero signals included.
C3_SelfMatch ==
  (/\ MatchReturned
   /\ test_ts = reference_ts
   /\ Len(reference_ts.data) >= 1
   /\ FGt(One, unit.threshold)) =>
     (matchOut.raised = "none" /\ matchOut.ret)

\* C4 as stated: with zero frames in either signal the matcher returns false
\* without computing or normalizing a correlation, and does not raise.
C4_ZeroFramesReturnFalse ==
  (MatchReturned /\ MinLen = 0) =>
     /\ matchOut.raised = "none"
     /\ ~matchOut.ret
     /\ matchOut.ran = {}

\* C9 as stated: whenever any correlation value is non-zero the maximum of
\* the normalized sequence is exactly 1.0.
C9_MaxIsOneWhenAnyNonZero ==
  (/\ MatchReturned
   /\ "normalize" \in matchOut.ran
   /\ \E k \in DOMAIN matchOut.correlation : matchOut.correlation[k] # 0) =>
     FEq(FMax(matchOut.normalized), One)

\* C9 amended: the maximum of the normalized sequence is exactly 1.0 whenever
\* the maximum of the correlation sequence is positive, or all correlation
\* values are equal and non-zero.
C9_MaxIsOneWhenMaxPositive ==
  (MatchReturned /\ "normalize" \in matchOut.ran) =>
     LET c == matchOut.correlation
         m == IMax(c)
     IN  (m > 0 \/ (m # 0 /\ \A k \in DOMAIN c : c[k] = m)) =>
            /\ Len(matchOut.normalized) = Len(c)
            /\ FEq(FMax(matchOut.normalized), One)

\* several lags, a positive maximum and a smaller value beside it
C9_Witness ==
  /\ MatchReturned /\ "normalize" \in matchOut.ran
  /\ Len(matchOut.correlation) = 2
  /\ matchOut.correlation[1] < 0 /\ matchOut.correlation[2] > 0
  /\ FEq(FMax(matchOut.normalized), One)

\* C10: for two signals with the same channel count and at least one frame
\* each, the correlation has exactly one lag whichever signal is longer, and
\* under every threshold below 1.0 the matcher returns true exactly when the
\* zero-lag inner product of the first MinLen frames is non-zero.
C10_TrueIffInnerProductNonZero ==
  (/\ MatchReturned
   /\ reference_ts.nch = test_ts.nch
   /\ MinLen >= 1) =>
     /\ matchOut.raised = "none"
     /\ Len(matchOut.correlation) = 1
     /\ matchOut.correlation[1] = InnerProduct
     /\ FGt(One, unit.threshold) => (matchOut.ret <=> InnerProduct # 0)

\* a longer test signal, a negative inner product, and still a match
C10_Witness ==
  /\ MatchReturned
  /\ reference_ts.nch = test_ts.nch
  /\ Len(test_ts.data) > Len(reference_ts.data)
  /\ Len(reference_ts.data) >= 1
  /\ InnerProduct < 0
  /\ FGt(One, unit.threshold)
  /\ matchOut.ret

----------------------------------------------------------------------------
(* Claims about resample_acoular_ts *)

ResampleReturned == pc = "returned" /\ unit.op = "resample_acoular_ts"

\* round(oldFrameCount * targetRate / oldRate)
ExpectedFrames == PyRound(Len(unit.ts.data) * unit.target_fs, unit.ts.sample_freq)

\* C5: resampling a signal to its own rate returns the input object itself,
\* with the same frames, frame count and rate, and leaves the input as it was.
C5_SameRateIsIdentity ==
  (ResampleReturned /\ unit.target_fs = unit.ts.sample_freq) =>
     /\ raised = "none"
     /\ unit.ret = unit.ts
     /\ unit.ret.id = unit.ts.id
     /\ test_ts = unit.ts

\* a non-empty signal resampled to its own rate
C5_Witness ==
  /\ ResampleReturned
  /\ unit.target_fs = unit.ts.sample_freq
  /\ Len(unit.ts.data) >= 1
  /\ unit.ret = unit.ts

ResampledAsStated ==
  /\ raised = "none"
  /\ unit.ret.id # unit.ts.id
  /\ unit.ret.sample_freq = unit.target_fs
  /\ Len(unit.ret.data) = ExpectedFrames
  /\ unit.ret.nch = unit.ts.nch
  /\ \A i \in DOMAIN unit.ret.data : Len(unit.ret.data[i]) = unit.ts.nch
  /\ test_ts = unit.ts

----------------------------------------------------------------------------
(* Claims about the direction rule *)

DirectionReturned == pc = "returned" /\ unit.op = "direction_of"

\* the first cell, in row-major order, holding the maximum of the map
FirstMaxCell(Lm) ==
  CHOOSE rc \in (1..NumRows(Lm)) \X (1..NumCols(Lm)) :
    /\ \A q \in (1..NumRows(Lm)) \X (1..NumCols(Lm)) :
          Lm[q[1]][q[2]] <= Lm[rc[1]][rc[2]]
    /\ \A q \in (1..NumRows(Lm)) \X (1..NumCols(Lm)) :
          (q[1] < rc[1] \/ (q[1] = rc[1] /\ q[2] < rc[2])) =>
             Lm[q[1]][q[2]] < Lm[rc[1]][rc[2]]

\* C7 as stated: the label is left-to-right when the column of the first
\* maximum lies strictly right of the horizontal centre of the map (columns
\* 1..n have their centre at (n + 1) / 2) and right-to-left otherwise, for
\* every map, with an even number of columns or with tied maxima.
C7_LabelFromSideOfCentre ==
  DirectionReturned =>
     LET col == FirstMaxCell(unit.Lm)[2]
     IN  direction = (IF 2 * col > NumCols(unit.Lm) + 1
                      THEN "left-to-right" ELSE "right-to-left")

====
